---- MODULE Spec2Model ----
(***************************************************************************)
(* Optimistic locking for Django models (package ool): the scope switch    *)
(* optimisticLocking, the ConcurrentUpdate exception and the insert and    *)
(* update hooks of VersionedMixin, run by concurrent threads against one   *)
(* row of the table that declares the VersionField.                        *)
(*                                                                         *)
(* A Python value that may be None, and an attribute that may be absent,   *)
(* is a set with at most one element: {} is None / absent, {n} is n.       *)
(*                                                                         *)
(* Steps. A statement sent to the database (the UPDATE, the existence      *)
(* check, the refresh, an insert, a delete) is one step, taken together    *)
(* with the thread's own computation that leads to it: the database runs   *)
(* in autocommit and other threads' statements come between any two.  An   *)
(* __enter__ or __exit__ is one step: the thread-local counter and the     *)
(* counter of a thread's own instance are touched by that thread only, and *)
(* the counter of the class is taken not to be toggled by two threads at   *)
(* the same instant.                                                       *)
(*                                                                         *)
(* _do_update has three branches: DoUpdateOtherTable for a table of the    *)
(* hierarchy that does not declare the VersionField, DoUpdateDeferred for  *)
(* an instance whose version attribute is deferred, and DoUpdate for the   *)
(* rest, with select_on_save off.  The version entry of `values` comes     *)
(* from pre_save, which reads the attribute, so the assertion on it holds  *)
(* in every call.  The rows of one object in the tables of a hierarchy are *)
(* inserted and deleted together, so `stored` also tells whether the row   *)
(* of another table exists.                                                *)
(***************************************************************************)
EXTENDS Integers, FiniteSets, Sequences, TLC

\* The threads; each one holds its own in-memory instance of the record.
Threads == {"t1", "t2"}

\* Largest version the store holds in a run.
MaxVersion == 2

\* Largest value of an _optimisticLocking counter under SpecScope and
\* SpecNesting.
MaxDepth == 2

\* Most negative value of an _optimisticLocking counter under SpecScope.
MaxUnder == 1

\* Largest value of an _optimisticLocking counter under Spec.
MaxNest == 1

None == {}

Some(n) == {n}

Get(s) == CHOOSE n \in s : TRUE

Versions == 0 .. MaxVersion

\* The owners of an _optimisticLocking attribute: the thread-local
\* current_state of each thread, the model class, and each thread's instance.
Owner(t, model) == IF model = "class" THEN <<"class", "class">> ELSE <<model, t>>

Models == {"thread", "class", "instance"}

Owners == {Owner(t, m) : t \in Threads, m \in Models}

\* What save() hands to _do_update as `values`: the version field and the
\* other columns, the other columns alone (update_fields without the version),
\* or nothing (update_fields names no column of this table).
ValueLists == {{"version", "other"}, {"other"}, {}}

VARIABLES
    stored,     \* the row with this primary key: {} no row, {n} its version
    version,    \* version[t]: the version attribute of t's instance
    locking,    \* locking[o]: the _optimisticLocking attribute of owner o
    nest,       \* nest[o]: the enters minus the exits on owner o so far
    balanced,   \* balanced[o]: no exit on o has yet come without an open enter
    loaded,     \* the version both threads of a race loaded; {} outside a race
    pc,         \* pc[t]: where t is inside _do_update
    values,     \* values[t]: the value list of t's current or last _do_update,
                \* {} after an insert
    result,     \* result[t]: how t's last _do_update or _do_insert ended
    deferred,   \* the threads whose instance has its version attribute deferred
    statements, \* statements[t]: the UPDATEs and the reads that t's current
                \* or last _do_update sent to the store, none after an insert
    open,       \* open[t]: the `with` blocks t is inside, innermost last
    outcome     \* outcome[t]: how the `with` block t has just left ended for
                \* its caller; "none" once t has gone on

vars == <<stored, version, locking, nest, balanced, loaded, pc, values, result,
          deferred, statements, open, outcome>>

----------------------------------------------------------------------------
(* optimisticLocking *)

\* getattr(stateObj, '_optimisticLocking', default). Attribute lookup on an
\* instance that has no attribute of its own finds the attribute of its class.
GetLocking(t, model, default) ==
    LET own == locking[Owner(t, model)]
        cls == locking[Owner(t, "class")]
    IN  IF own # {} THEN Get(own)
        ELSE IF model = "instance" /\ cls # {} THEN Get(cls)
        ELSE default

\* Mutant of SetLocking: current_state is one object shared by the threads
\* instead of a threading.local.
SetLockingShared(t, model, n) ==
    [o \in Owners |->
        IF o = Owner(t, model) \/ (model = "thread" /\ o[1] = "thread")
        THEN Some(n) ELSE locking[o]]

\* stateObj._optimisticLocking = n
SetLocking(t, model, n) == [locking EXCEPT ![Owner(t, model)] = Some(n)]

\* Mutant of ExitValue: the exit switches the scope off.
ExitReset(t, model) == 0

\* Mutant of EnterValue: a flag that is set, not a counter that is raised.
EnterFlag(t, model) == 1

EnterValue(t, model) == GetLocking(t, model, 0) + 1

ExitValue(t, model) == GetLocking(t, model, 1) - 1

\* optimisticLocking(model).__enter__ in thread t
Enter(t, model) ==
    /\ pc[t] = "idle"
    /\ locking' = SetLocking(t, model, EnterValue(t, model))
    /\ nest' = [nest EXCEPT ![Owner(t, model)] = @ + 1]
    /\ UNCHANGED <<stored, version, balanced, loaded, pc, values, result>>
    /\ UNCHANGED <<deferred, statements>>

\* optimisticLocking(model).__exit__ in thread t
Exit(t, model) ==
    /\ pc[t] = "idle"
    /\ locking' = SetLocking(t, model, ExitValue(t, model))
    /\ nest' = [nest EXCEPT ![Owner(t, model)] = @ - 1]
    /\ balanced' = [balanced EXCEPT ![Owner(t, model)] = @ /\ nest[Owner(t, model)] >= 1]
    /\ UNCHANGED <<stored, version, loaded, pc, values, result>>
    /\ UNCHANGED <<deferred, statements>>

\* Python truth of an integer.
Truthy(n) == n # 0

\* Largest number of `with` blocks a thread is inside at a time.
MaxOpen == 2

\* The places of the blocks that threads other than t are inside.
OtherBlocks(t) ==
    UNION {{<<u, i>> : i \in 1 .. Len(open[u])} : u \in Threads \ {t}}

\* The number of blocks on the owner of (t, model) that other threads are
\* inside: only the class is an owner that threads share.
OthersOpen(t, model) ==
    Cardinality({p \in OtherBlocks(t) :
                    Owner(p[1], open[p[1]][p[2]].model) = Owner(t, model)})

\* The innermost block t is inside.
Top(t) == open[t][Len(open[t])]

\* `with optimisticLocking(model):` and the call of a function decorated by
\* optimisticLocking(model), up to the start of the body: __enter__. The
\* block keeps what the counter read before, and how many blocks of other
\* threads were open on its owner.
WithEnter(t, model) ==
    /\ open[t] # <<>> => Top(t).body = "running"
    /\ Enter(t, model)
    /\ open' = [open EXCEPT ![t] =
                   Append(@, [model |-> model,
                              before |-> GetLocking(t, model, 0),
                              others |-> OthersOpen(t, model),
                              body |-> "running"])]
    /\ outcome' = [outcome EXCEPT ![t] = "none"]

\* The body of t's innermost block ends: it returns or it raises.
BodyEnds(t, how) ==
    /\ pc[t] = "idle"
    /\ open[t] # <<>>
    /\ Top(t).body = "running"
    /\ open' = [open EXCEPT ![t][Len(open[t])].body = how]
    /\ outcome' = [outcome EXCEPT ![t] = "none"]
    /\ UNCHANGED <<stored, version, locking, nest, balanced, loaded, pc, values, result>>
    /\ UNCHANGED <<deferred, statements>>

\* The truth of what __exit__ returns: it returns None.
ExitSuppresses == FALSE

\* The end of the `with` statement: __exit__ is called however the body
\* ended, and an exception of the body is raised again unless __exit__
\* returned a true value.
WithExit(t) ==
    /\ open[t] # <<>>
    /\ Top(t).body # "running"
    /\ Exit(t, Top(t).model)
    /\ open' = [open EXCEPT ![t] = SubSeq(@, 1, Len(@) - 1)]
    /\ outcome' = [outcome EXCEPT ![t] =
                      IF Top(t).body = "raise" /\ ~ExitSuppresses
                      THEN "raise" ELSE "return"]

\* Mutant of active: the scope of a given model replaces the thread-local
\* scope instead of adding to it.
activeModelOnly(t, model) ==
    IF model = "thread"
    THEN GetLocking(t, "thread", 0) # 0
    ELSE GetLocking(t, model, 0) # 0

\* optimisticLocking.active(model) evaluated in thread t; model "thread"
\* stands for active() without a model.
active(t, model) ==
    \/ Truthy(GetLocking(t, "thread", 0))
    \/ model # "thread" /\ Truthy(GetLocking(t, model, 0))

----------------------------------------------------------------------------
(* VersionedMixin *)

\* version_field.default
VersionDefault == 0

\* The statements of a call so far: its UPDATEs and its reads.
Statements(u, r) == [update |-> u, read |-> r]

\* Mutant of AfterRead: the read is followed by a second UPDATE.
AfterReadAndRetry(t) == [statements EXCEPT ![t] = Statements(@.update + 1, @.read + 1)]

\* One more read by t's call.
AfterRead(t) == [statements EXCEPT ![t] = Statements(@.update, @.read + 1)]

\* Mutant of IsDeferred: the deferred check is left out.
IsDeferredUnchecked(t) == FALSE

\* version_field.attname in self.get_deferred_fields()
IsDeferred(t) == t \in deferred

\* Mutant of InsertedVersion: every insert starts from the default.
InsertedVersionReset(t) == Some(VersionDefault)

\* The version attribute after `if client_version is None: setattr(...)`.
InsertedVersion(t) == IF version[t] = None THEN Some(VersionDefault) ELSE version[t]

\* _do_insert: a version of None is replaced by the default, then the row is
\* inserted. It is enabled only without a row of this primary key, for an
\* instance that was not loaded from the store with a deferred version.
DoInsert(t) ==
    /\ pc[t] = "idle"
    /\ stored = {}
    /\ ~IsDeferred(t)
    /\ version' = [version EXCEPT ![t] = InsertedVersion(t)]
    /\ stored' = version'[t]
    /\ result' = [result EXCEPT ![t] = IF version[t] = None THEN "InsertedDefault" ELSE "Inserted"]
    /\ values' = [values EXCEPT ![t] = {}]
    /\ statements' = [statements EXCEPT ![t] = Statements(0, 0)]
    /\ UNCHANGED <<locking, nest, balanced, loaded, pc, deferred, open, outcome>>

\* Mutant of VersionFilter: the UPDATE is never conditioned on the version.
VersionFilterDropped(t) == None

\* version_qs: the version the UPDATE is conditioned on, None for no condition.
VersionFilter(t) ==
    IF version[t] # None /\ active(t, "instance") THEN version[t] ELSE None

\* Mutant of NewVersion: a version of None is written as the literal
\* default + 1 instead of F(version) + 1.
NewVersionLiteral(t, row) ==
    IF version[t] # None THEN Get(version[t]) + 1 ELSE VersionDefault + 1

\* The version entry of the rewritten value list: client version + 1 as a
\* literal, or F(version) + 1, which the store evaluates on the row.
NewVersion(t, row) ==
    IF version[t] # None THEN Get(version[t]) + 1 ELSE row + 1

\* Whether the filtered queryset holds the row.
Matches(filter) == stored # {} /\ (filter = None \/ stored = filter)

\* The base class's _do_update on version_qs: one UPDATE of the row the
\* queryset holds; with an empty value list (update_fields passed as None)
\* only the existence check of the queryset.
StoredAfterUpdate(t, vals) ==
    IF Matches(VersionFilter(t)) /\ "version" \in vals
    THEN Some(NewVersion(t, Get(stored)))
    ELSE stored

\* Mutant of VersionAfterUpdate: the instance is not told the new version.
VersionAfterUpdateKept(t, vals) == version[t]

\* setattr(self, version_field.attname, new_version)
VersionAfterUpdate(t, vals) ==
    IF "version" \in vals /\ version[t] # None
    THEN Some(Get(version[t]) + 1)
    ELSE version[t]

\* What the base class's _do_update sends for a value list: one UPDATE, or
\* with an empty value list one existence check when update_fields is None
\* and nothing when update_fields is given.
BaseStatements(vals, given) ==
    IF vals # {} THEN Statements(1, 0)
    ELSE IF given THEN Statements(0, 0)
    ELSE Statements(0, 1)

\* _do_update for the table of the VersionField and a loaded version, up to
\* the return of the base class's _do_update, which gets update_fields as
\* None when the value list is empty.
DoUpdate(t, vals) ==
    /\ pc[t] = "idle"
    /\ ~IsDeferred(t)
    /\ stored' = StoredAfterUpdate(t, vals)
    /\ version' = [version EXCEPT ![t] = VersionAfterUpdate(t, vals)]
    /\ pc' = [pc EXCEPT ![t] = IF Matches(VersionFilter(t)) THEN "updated" ELSE "not_updated"]
    /\ values' = [values EXCEPT ![t] = vals]
    /\ result' = [result EXCEPT ![t] = "none"]
    /\ statements' = [statements EXCEPT ![t] = BaseStatements(vals, vals # {})]
    /\ \A n \in stored' \cup version'[t] : n <= MaxVersion
    /\ UNCHANGED <<locking, nest, balanced, loaded, deferred, open, outcome>>

\* Mutant of RowExists: the existence check is left out.
RowExistsUnchecked == TRUE

\* base_qs.filter(pk=pk_val).exists()
RowExists == stored # {}

\* `if not updated and base_qs.filter(pk=pk_val).exists()` and `return updated`
CheckUpdated(t) ==
    /\ pc[t] \in {"updated", "not_updated"}
    /\ IF pc[t] = "updated"
       THEN /\ pc' = [pc EXCEPT ![t] = "idle"]
            /\ result' = [result EXCEPT ![t] = "True"]
            /\ UNCHANGED statements
       ELSE IF RowExists
       THEN /\ pc' = [pc EXCEPT ![t] = "raise"]
            /\ statements' = AfterRead(t)
            /\ UNCHANGED result
       ELSE /\ pc' = [pc EXCEPT ![t] = "idle"]
            /\ result' = [result EXCEPT ![t] = "False"]
            /\ statements' = AfterRead(t)
    /\ UNCHANGED <<stored, version, locking, nest, balanced, loaded, values>>
    /\ UNCHANGED <<deferred, open, outcome>>

\* model.refresh_from_db(): the instance takes the stored values; without a
\* row the query raises DoesNotExist and the instance is left as it is.
RefreshFromDb(t) == IF stored # {} THEN stored ELSE version[t]

\* raise ConcurrentUpdate(self): the constructor refreshes the instance.
RaiseConcurrentUpdate(t) ==
    /\ pc[t] = "raise"
    /\ version' = [version EXCEPT ![t] = RefreshFromDb(t)]
    /\ result' = [result EXCEPT ![t] = IF stored # {} THEN "ConcurrentUpdate" ELSE "DoesNotExist"]
    /\ pc' = [pc EXCEPT ![t] = "idle"]
    /\ statements' = AfterRead(t)
    /\ UNCHANGED <<stored, locking, nest, balanced, loaded, values>>
    /\ UNCHANGED <<deferred, open, outcome>>

\* What save() hands to _do_update for a table without the version field.
OtherValueLists == {{"other"}, {}}

\* Mutant of OtherTableFilter: the version condition is added for every table.
OtherTableFilterVersioned(t) == VersionFilter(t)

\* The queryset of the call for another table: base_qs as it came.
OtherTableFilter(t) == None

\* _do_update for a table of the hierarchy that does not declare the
\* VersionField: the base class's _do_update with the arguments as they came.
\* `given` tells whether update_fields was given.
DoUpdateOtherTable(t, vals, given) ==
    /\ pc[t] = "idle"
    /\ pc' = [pc EXCEPT ![t] =
                 IF (vals = {} /\ given) \/ Matches(OtherTableFilter(t))
                 THEN "passed_updated" ELSE "passed_not_updated"]
    /\ values' = [values EXCEPT ![t] = vals]
    /\ result' = [result EXCEPT ![t] = "none"]
    /\ statements' = [statements EXCEPT ![t] = BaseStatements(vals, given)]
    /\ UNCHANGED <<stored, version, locking, nest, balanced, loaded, deferred, open, outcome>>

\* `return super()._do_update(...)` of the call for another table.
ReturnPassed(t) ==
    /\ pc[t] \in {"passed_updated", "passed_not_updated"}
    /\ pc' = [pc EXCEPT ![t] = "idle"]
    /\ result' = [result EXCEPT ![t] = IF pc[t] = "passed_updated" THEN "OtherTrue" ELSE "OtherFalse"]
    /\ UNCHANGED <<stored, version, locking, nest, balanced, loaded, values>>
    /\ UNCHANGED <<deferred, statements, open, outcome>>

\* _do_update for the table of the VersionField on an instance whose version
\* attribute is deferred: raise RuntimeError.
DoUpdateDeferred(t, vals) ==
    /\ pc[t] = "idle"
    /\ IsDeferred(t)
    /\ values' = [values EXCEPT ![t] = vals]
    /\ result' = [result EXCEPT ![t] = "RuntimeError"]
    /\ statements' = [statements EXCEPT ![t] = Statements(0, 0)]
    /\ UNCHANGED <<stored, version, locking, nest, balanced, loaded, pc, deferred, open, outcome>>

----------------------------------------------------------------------------
(* The callers of the mixin *)

\* The thread loads the row into its instance; a refresh of an instance
\* with a deferred version leaves the version deferred.
Refetch(t) ==
    /\ pc[t] = "idle"
    /\ stored # {}
    /\ ~IsDeferred(t)
    /\ version' = [version EXCEPT ![t] = RefreshFromDb(t)]
    /\ UNCHANGED <<stored, locking, nest, balanced, loaded, pc, values, result>>
    /\ UNCHANGED <<deferred, statements, open, outcome>>

\* The thread loads the row with the version field deferred, as
\* defer('version') or only(...) do: the instance has no version attribute,
\* and version[t] is kept at None while it has none.
LoadDeferred(t) ==
    /\ pc[t] = "idle"
    /\ stored # {}
    /\ ~IsDeferred(t)
    /\ deferred' = deferred \cup {t}
    /\ version' = [version EXCEPT ![t] = None]
    /\ UNCHANGED <<stored, locking, nest, balanced, loaded, pc, values, result>>
    /\ UNCHANGED <<statements, open, outcome>>

\* The client supplies the version of the instance, or None; the attribute
\* is then no longer deferred.
SetVersion(t, v) ==
    /\ pc[t] = "idle"
    /\ version[t] # v \/ IsDeferred(t)
    /\ version' = [version EXCEPT ![t] = v]
    /\ deferred' = deferred \ {t}
    /\ UNCHANGED <<stored, locking, nest, balanced, loaded, pc, values, result>>
    /\ UNCHANGED <<statements, open, outcome>>

\* The thread deletes the row.
Delete(t) ==
    /\ pc[t] = "idle"
    /\ stored # {}
    /\ stored' = {}
    /\ UNCHANGED <<version, locking, nest, balanced, loaded, pc, values, result>>
    /\ UNCHANGED <<deferred, statements, open, outcome>>

----------------------------------------------------------------------------

Init ==
    /\ stored = {}
    /\ version = [t \in Threads |-> Some(VersionDefault)]
    /\ locking = [o \in Owners |-> {}]
    /\ nest = [o \in Owners |-> 0]
    /\ balanced = [o \in Owners |-> TRUE]
    /\ loaded = {}
    /\ pc = [t \in Threads |-> "idle"]
    /\ values = [t \in Threads |-> {}]
    /\ result = [t \in Threads |-> "none"]
    /\ deferred = {}
    /\ statements = [t \in Threads |-> Statements(0, 0)]
    /\ open = [t \in Threads |-> <<>>]
    /\ outcome = [t \in Threads |-> "none"]

\* Every counter stays within lo .. hi.
Within(lo, hi) == \A o \in Owners : \A n \in locking'[o] : lo <= n /\ n <= hi

\* Every exit so far closed an open enter, as the exits of `with` blocks do.
Balanced == \A o \in Owners : balanced'[o]

\* `with optimisticLocking():` blocks, the thread-local scope of each thread.
Blocks ==
    \E t \in Threads :
        \/ Enter(t, "thread") /\ Within(0, MaxNest) /\ UNCHANGED <<open, outcome>>
        \/ Exit(t, "thread") /\ Within(0, MaxNest) /\ Balanced /\ UNCHANGED <<open, outcome>>

Record ==
    \E t \in Threads :
        \/ DoInsert(t)
        \/ Refetch(t)
        \/ Delete(t)
        \/ \E v \in {None} \cup {Some(n) : n \in Versions} : SetVersion(t, v)

Update ==
    \E t \in Threads :
        \/ \E vals \in ValueLists : DoUpdate(t, vals)
        \/ CheckUpdated(t)
        \/ RaiseConcurrentUpdate(t)

Next == Blocks \/ Record \/ Update

Spec == Init /\ [][Next]_vars

\* The scope switch alone, on every kind of owner, with unbalanced exits.
NextScope ==
    \E t \in Threads, m \in Models :
        \/ Enter(t, m) /\ Within(-MaxUnder, MaxDepth) /\ UNCHANGED <<open, outcome>>
        \/ Exit(t, m) /\ Within(-MaxUnder, MaxDepth) /\ UNCHANGED <<open, outcome>>

SpecScope == Init /\ [][NextScope]_vars

\* The scope switch alone, on every kind of owner, used in `with` blocks:
\* every exit closes an open enter of its owner.
NextNesting ==
    \E t \in Threads, m \in Models :
        \/ Enter(t, m) /\ Within(0, MaxDepth) /\ UNCHANGED <<open, outcome>>
        \/ Exit(t, m) /\ Within(0, MaxDepth) /\ Balanced /\ UNCHANGED <<open, outcome>>

SpecNesting == Init /\ [][NextNesting]_vars

\* The scope switch alone, used through `with` blocks and decorated calls on
\* every kind of owner: each thread leaves its blocks innermost first.
NextBlocks ==
    \E t \in Threads :
        \/ \E m \in Models :
              WithEnter(t, m) /\ Within(0, MaxDepth) /\ Len(open'[t]) <= MaxOpen
        \/ \E how \in {"return", "raise"} : BodyEnds(t, how)
        \/ WithExit(t)

SpecBlocks == Init /\ [][NextBlocks]_vars

\* The scope states in which each counter is absent or 1 (one open block).
OpenBlocks == [Owners -> {{}, {1}}]

\* Two threads hold the row at the same version v with locking active for
\* both, and each calls _do_update once.
InitRace ==
    /\ \E v \in 0 .. MaxVersion - 1 :
          /\ stored = Some(v)
          /\ version = [t \in Threads |-> Some(v)]
          /\ loaded = Some(v)
    /\ locking \in OpenBlocks
    /\ \A t \in Threads : active(t, "instance")
    /\ nest = [o \in Owners |-> Cardinality(locking[o])]
    /\ balanced = [o \in Owners |-> TRUE]
    /\ pc = [t \in Threads |-> "idle"]
    /\ values = [t \in Threads |-> {}]
    /\ result = [t \in Threads |-> "none"]
    /\ deferred = {}
    /\ statements = [t \in Threads |-> Statements(0, 0)]
    /\ open = [t \in Threads |-> <<>>]
    /\ outcome = [t \in Threads |-> "none"]

NextRace ==
    \E t \in Threads :
        \/ \E vals \in ValueLists : result[t] = "none" /\ DoUpdate(t, vals)
        \/ CheckUpdated(t)
        \/ RaiseConcurrentUpdate(t)

SpecRace == InitRace /\ [][NextRace]_vars

\* The saves of instances of a multi-table hierarchy, loaded with or without
\* the version field: both threads hold the row at some version, each scope
\* has a block open or none, and the threads load, save and delete.
InitTables ==
    /\ \E v \in Versions :
          /\ stored = Some(v)
          /\ version = [t \in Threads |-> Some(v)]
    /\ locking \in OpenBlocks
    /\ nest = [o \in Owners |-> Cardinality(locking[o])]
    /\ balanced = [o \in Owners |-> TRUE]
    /\ loaded = {}
    /\ pc = [t \in Threads |-> "idle"]
    /\ values = [t \in Threads |-> {}]
    /\ result = [t \in Threads |-> "none"]
    /\ deferred = {}
    /\ statements = [t \in Threads |-> Statements(0, 0)]
    /\ open = [t \in Threads |-> <<>>]
    /\ outcome = [t \in Threads |-> "none"]

NextTables ==
    \E t \in Threads :
        \/ LoadDeferred(t)
        \/ Refetch(t)
        \/ Delete(t)
        \/ \E vals \in OtherValueLists, given \in BOOLEAN :
              DoUpdateOtherTable(t, vals, given)
        \/ ReturnPassed(t)
        \/ \E vals \in ValueLists : DoUpdateDeferred(t, vals)
        \/ \E vals \in ValueLists : DoUpdate(t, vals)
        \/ CheckUpdated(t)
        \/ RaiseConcurrentUpdate(t)

SpecTables == InitTables /\ [][NextTables]_vars

----------------------------------------------------------------------------
(* Properties *)

\* Thread t's _do_update has ended (returned or raised).
Done(t) == pc[t] = "idle" /\ result[t] # "none"

\* The step is t's UPDATE statement: t goes from outside _do_update to the
\* return of the base class's _do_update.
Updates(t) == pc[t] = "idle" /\ pc'[t] \in {"updated", "not_updated"}

\* Thread t's _do_update has ended and its UPDATE statement affected the row.
Affected(t) == Done(t) /\ result[t] = "True" /\ values[t] # {}

C2_NeverDecreases ==
    [][stored # {} /\ stored' # {} => Get(stored') >= Get(stored)]_vars

\* C3 as claimed, for the updates that write the version field: an update
\* that affects the row raises its stored version by exactly 1.
C3_RaisesByOne ==
    [][\A t \in Threads :
          Updates(t) /\ pc'[t] = "updated" /\ "version" \in values'[t] =>
              stored' = Some(Get(stored) + 1)]_vars

C5_ConflictCarriesStored ==
    [][\A t \in Threads :
          pc[t] = "raise" /\ pc'[t] # pc[t] =>
              result'[t] = "ConcurrentUpdate" /\ version'[t] = stored']_vars

\* C6: an update that finds no row, the row still being absent at the
\* existence check, writes nothing and returns false; it does not raise
\* ConcurrentUpdate, whatever the scope state and the version in memory.
C6_DeletedRowNotUpdated ==
    [][\A t \in Threads :
          /\ Updates(t) /\ stored = {} => pc'[t] = "not_updated" /\ stored' = {}
          /\ pc[t] = "not_updated" /\ stored = {} /\ pc'[t] # pc[t] =>
                Done(t)' /\ result'[t] = "False"]_vars

C6_Witness ==
    \E t \in Threads :
        /\ Done(t) /\ result[t] = "False" /\ stored = {}
        /\ version[t] # None /\ active(t, "instance")

\* Owner o is the only owner whose attribute was ever set.
OnlyOwner(o) == \A o2 \in Owners \ {o} : locking[o2] = {}

\* C7: on an owner that is the only one used and whose exits all closed an
\* open enter, active() is true exactly while the enters exceed the exits.
C7_ActiveWhileEntered ==
    \A t \in Threads, m \in Models :
        OnlyOwner(Owner(t, m)) /\ balanced[Owner(t, m)] =>
            (active(t, m) <=> nest[Owner(t, m)] > 0)

C7_Witness ==
    \E t \in Threads, m \in Models :
        /\ OnlyOwner(Owner(t, m)) /\ balanced[Owner(t, m)]
        /\ locking[Owner(t, m)] = Some(0) /\ nest[Owner(t, m)] = 0
        /\ ~active(t, m)

\* C8 as claimed: on an owner with more exits than enters, no other owner
\* being used, the counter is negative and active() is false.
C8_SurplusExitInactive ==
    \A t \in Threads, m \in Models :
        OnlyOwner(Owner(t, m)) /\ nest[Owner(t, m)] < 0 =>
            /\ locking[Owner(t, m)] # {}
            /\ Get(locking[Owner(t, m)]) < 0
            /\ ~active(t, m)

\* C9: a step that changes the thread-local counter of one thread changes
\* neither active() in another thread, for any model, nor the version
\* condition of another thread's update.
C9_AmbientPerThread ==
    [][\A t \in Threads :
          locking'[Owner(t, "thread")] # locking[Owner(t, "thread")] =>
              \A u \in Threads \ {t} :
                  /\ \A m \in Models : active(u, m)' = active(u, m)
                  /\ VersionFilter(u)' = VersionFilter(u)]_vars

C9_Witness ==
    \E t, u \in Threads :
        /\ t # u
        /\ locking[Owner(t, "thread")] = Some(1)
        /\ ~active(u, "instance")
        /\ pc[u] = "updated" /\ version[u] # None /\ stored # version[u]

\* The thread-local scope is active in t and no scope was ever entered on
\* t's instance or on the class.
AmbientOnly(t) ==
    /\ Truthy(GetLocking(t, "thread", 0))
    /\ locking[Owner(t, "instance")] = {}
    /\ locking[Owner(t, "class")] = {}

\* C10: with only the thread-local scope active, an update with a version in
\* memory affects the row exactly when the stored version equals that
\* version; when the row exists with another version the update writes
\* nothing and, the row still existing, the call raises ConcurrentUpdate.
C10_AmbientStillChecks ==
    [][\A t \in Threads :
          /\ Updates(t) /\ AmbientOnly(t) /\ version[t] # None =>
                /\ pc'[t] = "updated" <=> stored = version[t]
                /\ stored # version[t] => stored' = stored
          /\ pc[t] = "not_updated" /\ AmbientOnly(t) /\ stored # {} /\ pc'[t] # pc[t] =>
                pc'[t] = "raise"
          /\ pc[t] = "raise" /\ AmbientOnly(t) /\ stored # {} /\ pc'[t] # pc[t] =>
                Done(t)' /\ result'[t] = "ConcurrentUpdate"]_vars

C10_Witness ==
    \E t \in Threads :
        /\ Done(t) /\ result[t] = "ConcurrentUpdate"
        /\ AmbientOnly(t)
        /\ values[t] # {}

\* C11: an update call for the table of the VersionField on an instance whose
\* version attribute is deferred sends no UPDATE and no other statement, ends
\* with RuntimeError, and leaves the stored row and the instance (its version
\* still deferred) as they were.
C11_DeferredFailsBeforeWrite ==
    [][\A t \in deferred :
          /\ ~Updates(t)
          /\ pc[t] = "idle" /\ pc'[t] = "idle"
                /\ <<result[t], values[t], statements[t]>>' # <<result[t], values[t], statements[t]>> =>
                    /\ result'[t] = "RuntimeError"
                    /\ statements'[t] = Statements(0, 0)
                    /\ stored' = stored
                    /\ version' = version
                    /\ t \in deferred']_vars

C11_Witness ==
    \E t \in deferred :
        /\ Done(t) /\ result[t] = "RuntimeError"
        /\ "version" \in values[t]
        /\ stored # {} /\ active(t, "instance")

\* The step is t's statement for a table without the VersionField.
Passes(t) == pc[t] = "idle" /\ pc'[t] \in {"passed_updated", "passed_not_updated"}

\* C19: an update call for a table that does not declare the VersionField
\* carries no version condition (it affects the row whenever the row exists,
\* whatever the version in memory and the scope state), leaves the stored
\* version and the version in memory as they were, and ends by returning
\* what the base class returned, never by raising ConcurrentUpdate.
C19_OtherTablePassedThrough ==
    [][\A t \in Threads :
          /\ Passes(t) =>
                /\ pc'[t] = "passed_updated" <=>
                        (stored # {} \/ statements'[t] = Statements(0, 0))
                /\ statements'[t].update = (IF values'[t] # {} THEN 1 ELSE 0)
                /\ stored' = stored
                /\ version' = version
          /\ pc[t] \in {"passed_updated", "passed_not_updated"} /\ pc'[t] # pc[t] =>
                /\ Done(t)'
                /\ result'[t] = (IF pc[t] = "passed_updated" THEN "OtherTrue" ELSE "OtherFalse")
                /\ statements'[t] = statements[t]
                /\ stored' = stored
                /\ version' = version]_vars

C19_Witness ==
    \E t \in Threads :
        /\ Done(t) /\ result[t] = "OtherTrue"
        /\ values[t] # {}
        /\ active(t, "instance")
        /\ version[t] # None /\ stored # {} /\ stored # version[t]

\* C12: the step that inserts the row is the insert of one thread t (the
\* instances of the others are untouched): with a version of None in t's
\* instance the stored version and the version in memory become the default,
\* with any other version the row is stored with that version and the
\* version in memory stays as it was.
C12_InsertStoresDefault ==
    [][stored = {} /\ stored' # {} =>
          \E t \in Threads :
              /\ \A u \in Threads \ {t} : version'[u] = version[u] /\ result'[u] = result[u]
              /\ IF version[t] = None
                 THEN /\ stored' = Some(VersionDefault)
                      /\ version'[t] = Some(VersionDefault)
                      /\ result'[t] = "InsertedDefault"
                 ELSE /\ stored' = version[t]
                      /\ version'[t] = version[t]
                      /\ result'[t] = "Inserted"]_vars

C12_Witness ==
    \E t \in Threads :
        /\ pc[t] = "idle" /\ result[t] = "InsertedDefault"
        /\ stored = Some(VersionDefault)
        /\ version[t] = Some(VersionDefault)

\* The thread-local counter of t and the counters of t's instance and of the
\* class all read zero.
Inactive(t) == \A m \in Models : GetLocking(t, m, 0) = 0

\* C13 as claimed: with locking inactive for t's record, t's UPDATE affects
\* the row whenever the row exists, whatever its stored version, and t's call
\* never goes on to raise ConcurrentUpdate.
C13_InactiveNeverConflicts ==
    [][\A t \in Threads :
          /\ Updates(t) /\ Inactive(t) /\ stored # {} => pc'[t] = "updated"
          /\ pc[t] = "not_updated" /\ Inactive(t) => pc'[t] # "raise"]_vars

\* How a call of _do_update for the table of the VersionField on a loaded
\* instance ends.
UpdateResults == {"True", "False", "ConcurrentUpdate", "DoesNotExist"}

\* C14 as claimed, for the calls that send an UPDATE (their value list is not
\* empty): the call sends exactly one UPDATE, no read when the UPDATE
\* affected the row, and at most one read when it affected no row.
C14_OneReadAsClaimed ==
    \A t \in Threads :
        Done(t) /\ result[t] \in UpdateResults /\ values[t] # {} =>
            /\ statements[t].update = 1
            /\ result[t] = "True" => statements[t].read = 0
            /\ statements[t].read <= 1

\* The reads that follow the base class's _do_update in a call that ended
\* with result r: none, the existence check, or the existence check and the
\* refresh.
ReadsAfter(r) == IF r = "True" THEN 0 ELSE IF r = "False" THEN 1 ELSE 2

\* C14 amended: a call never sends more than one UPDATE; with a value list
\* that is not empty it sends exactly one, with an empty one it sends one
\* existence check in its place. After that it sends no read when the row was
\* affected, one read (the existence check) when no row was affected and the
\* row is gone, and two reads (the existence check and the refresh) when it
\* ends with the conflict.
C14_OneUpdateTwoReads ==
    \A t \in Threads :
        /\ statements[t].update <= 1
        /\ Done(t) /\ result[t] \in UpdateResults =>
              statements[t] = IF values[t] # {}
                              THEN Statements(1, ReadsAfter(result[t]))
                              ELSE Statements(0, 1 + ReadsAfter(result[t]))

C14_Witness ==
    \E t \in Threads :
        /\ Done(t) /\ result[t] = "ConcurrentUpdate"
        /\ values[t] # {}
        /\ statements[t] = Statements(1, 2)

\* C15 as claimed: when every thread has left all its `with` blocks, active()
\* is false in every thread for every owner.
C15_AllExitedInactive ==
    (\A t \in Threads : open[t] = <<>>) =>
        \A t \in Threads, m \in Models : ~active(t, m)

\* C16: the step that ends a `with` block or a decorated call, whether its
\* body returned or raised, leaves the owner's counter reading what it read
\* before the entry (for the class, plus the blocks other threads have opened
\* on it since and minus those they have closed), and the caller sees the
\* body's return or the body's exception; while a body runs, active() is true
\* for the owner of its block.
C16_BlockRestoresCounter ==
    [][\A t \in Threads :
          /\ Len(open'[t]) < Len(open[t]) =>
                /\ \A m \in Models :
                      m = Top(t).model =>
                          GetLocking(t, m, 0)' =
                              Top(t).before + OthersOpen(t, m) - Top(t).others
                /\ outcome'[t] = Top(t).body
          /\ \A m \in Models :
                (\E i \in 1 .. Len(open'[t]) : open'[t][i].model = m) => active(t, m)']_vars

C16_Witness ==
    \E t \in Threads :
        /\ outcome[t] = "raise"
        /\ Len(open[t]) = 1 /\ Top(t).body = "running"
        /\ locking[Owner(t, Top(t).model)] = Some(1)
        /\ nest[Owner(t, Top(t).model)] = 1

C18_NothingUpdatedKeepsVersion ==
    [][\A t \in Threads :
          /\ Updates(t) /\ stored = {} => version'[t] = version[t]
          /\ pc[t] = "not_updated" /\ stored = {} /\ pc'[t] # pc[t] =>
                version'[t] = version[t]]_vars

====
